---- MODULE Spec2Model ----
(***************************************************************************)
(* Model of the VSME validation scripts:                                   *)
(*   scripts/api-server.py    (Flask endpoints, validate_excel)            *)
(*   scripts/validate-json.py (command-line entry point)                   *)
(* The mireport package (ConversionResultsBuilder, ExcelProcessor,         *)
(* ArelleReportProcessor) is called by these scripts; the extractor and    *)
(* the validator are external collaborators whose behaviour is drawn       *)
(* nondeterministically, and the results builder is modelled from its      *)
(* documented contract.                                                    *)
(***************************************************************************)
EXTENDS Integers, Sequences, FiniteSets, TLC

(***************************************************************************)
(* Bounds of the model.                                                    *)
(***************************************************************************)
\* diagnostics the extractor may append during one populateReport() call
MaxExtractMsgs == 1
\* diagnostics one validateReportPackage() call may return
MaxValMsgs == 1
\* largest cell counter the extractor reports
MaxCells == 1
\* validation runs one process serves
MaxRuns == 2
\* threads calling _ensure_taxonomy_loaded concurrently
NumCallers == 3

(***************************************************************************)
(* Python values.  Strings that the code inspects character by character   *)
(* (lower(), endswith(), Path.suffix) are sequences of characters.         *)
(***************************************************************************)
None == "None"
PyBool(b) == IF b THEN "True" ELSE "False"

\* bool(v) for the JSON values a request may carry in "skip_xbrl"
Truthy(v) == v \in {"True", "'false'", "1"}

LowerChar(c) ==
    CASE c = "R" -> "r"
      [] c = "X" -> "x"
      [] c = "L" -> "l"
      [] c = "S" -> "s"
      [] c = "T" -> "t"
      [] c = "U" -> "u"
      [] c = "E" -> "e"
      [] c = "F" -> "f"
      [] c = "A" -> "a"
      [] OTHER -> c

\* str.lower()
Lower(s) == [i \in DOMAIN s |-> LowerChar(s[i])]

\* str.endswith(suffix)
EndsWith(s, suf) ==
    /\ Len(suf) <= Len(s)
    /\ SubSeq(s, Len(s) - Len(suf) + 1, Len(s)) = suf

\* str.rfind("."), 1-based; 0 when there is no dot
LastDot(s) ==
    IF \E i \in DOMAIN s : s[i] = "."
    THEN CHOOSE i \in DOMAIN s : s[i] = "." /\ \A j \in DOMAIN s : s[j] = "." => j <= i
    ELSE 0

\* pathlib.PurePath.suffix of a single-component path
PathSuffix(s) ==
    IF LastDot(s) > 1 /\ LastDot(s) < Len(s)
    THEN SubSeq(s, LastDot(s), Len(s))
    ELSE <<>>

DotXlsx == <<".", "x", "l", "s", "x">>
StrTrue == <<"t", "r", "u", "e">>

\* names a client may send
NameLower == <<"r", ".", "x", "l", "s", "x">>
NameUpper == <<"R", ".", "X", "L", "S", "X">>
NameCsv == <<"r", ".", "c", "s", "v">>
NameBare == <<"x", "l", "s", "x">>
NameEmpty == <<>>
Filenames == {NameLower, NameUpper, NameCsv, NameBare, DotXlsx, NameEmpty}

\* the file system seen by /validate/path
ExistingPaths == {NameLower, NameCsv, DotXlsx}

StrFalse == <<"f", "a", "l", "s", "e">>

\* values of the multipart form field skip_xbrl
FormSkipValues == {StrTrue, <<"T", "R", "U", "E">>, <<"1">>, StrFalse}

\* JSON values of the body member skip_xbrl ("absent": member not sent)
JsonSkipValues == {"absent", "True", "False", "'false'", "0"}

(***************************************************************************)
(* Diagnostics.                                                            *)
(***************************************************************************)
Severities == {"INFO", "WARNING", "ERROR"}

Diag(text, severity, type) ==
    [messageText |-> text, severity |-> severity, messageType |-> type,
     conceptQName |-> None, excelReference |-> None]

\* what the extractor may report through the builder it is given
ExtractDiags ==
    {Diag("cell", s, "ExcelParsing") : s \in Severities} \cup {Diag("cell", "ERROR", "Conversion")}

\* what the validator may return in arelle_results.messages
ValidatorDiags == {Diag("rule", s, "XbrlValidation") : s \in Severities}

RECURSIVE SeqsUpTo(_, _)
SeqsUpTo(S, n) ==
    IF n = 0 THEN {<<>>}
    ELSE LET shorter == SeqsUpTo(S, n - 1)
         IN shorter \cup {Append(q, d) : q \in {p \in shorter : Len(p) = n - 1}, d \in S}

\* failures a stage may raise; all are subclasses of Exception
\* (KeyboardInterrupt and SystemExit are process control, not stage failures)
Failures == {"ValueError", "KeyError"}

CountSev(msgs, sev) == Cardinality({i \in DOMAIN msgs : msgs[i].severity = sev})

(***************************************************************************)
(* mireport.conversionresults: the results builder and the frozen result.  *)
(* The builder keeps what was appended; every aggregate is computed by     *)
(* build().                                                                *)
(***************************************************************************)
\* ConversionResultsBuilder()
NewBuilder ==
    [messages |-> <<>>, validated |-> FALSE, validatorMessages |-> <<>>,
     cellsQueried |-> 0, cellsPopulated |-> 0]

\* ConversionResultsBuilder.addMessage(text, severity, messageType)
AddMessage(b, text, severity, type) ==
    [b EXCEPT !.messages = Append(@, Diag(text, severity, type))]

\* ConversionResultsBuilder.addMessages(sequence): the validation stage's append
AddMessages(b, msgs) ==
    [b EXCEPT !.messages = @ \o msgs, !.validated = TRUE, !.validatorMessages = @ \o msgs]

SevRank(s) == CASE s = "none" -> 0 [] s = "INFO" -> 1 [] s = "WARNING" -> 2 [] s = "ERROR" -> 3

\* SeverityModel.aggregate: the maximum severity present, "none" for no diagnostics
OverallSeverity(msgs) ==
    IF msgs = <<>> THEN "none"
    ELSE LET present == {msgs[i].severity : i \in DOMAIN msgs}
         IN CHOOSE s \in present : \A t \in present : SevRank(t) <= SevRank(s)

\* success: no ERROR diagnostic and no internal-exception diagnostic recorded
ConversionSuccessful(msgs) ==
    /\ ~\E i \in DOMAIN msgs : msgs[i].severity = "ERROR"
    /\ ~\E i \in DOMAIN msgs : msgs[i].messageType = "Conversion" /\ msgs[i].severity = "ERROR"

\* xbrlValid: unset unless the validation stage appended its diagnostics
IsXbrlValid(b) ==
    IF b.validated THEN PyBool(CountSev(b.validatorMessages, "ERROR") = 0) ELSE None

\* ConversionResultsBuilder.build(): the frozen ConversionResults
BuildResults(b, id) ==
    [conversionId |-> id,
     conversionSuccessful |-> ConversionSuccessful(b.messages),
     isXbrlValid |-> IsXbrlValid(b),
     overallSeverity |-> OverallSeverity(b.messages),
     cellsQueried |-> b.cellsQueried,
     cellsPopulated |-> b.cellsPopulated,
     userMessages |-> b.messages]

\* ConversionResults.hasErrors() / hasWarnings()
HasErrors(res) == CountSev(res.userMessages, "ERROR") > 0
HasWarnings(res) == CountSev(res.userMessages, "WARNING") > 0

(***************************************************************************)
(* State.                                                                  *)
(***************************************************************************)
VARIABLES
    phase,              \* position of the process: import, main, serving, cli, ...;
                        \* "pair": a serving API process beside a CLI process
    _taxonomy_loaded,   \* api-server.py module global
    loaderRuns,         \* completed calls of mireport.loadTaxonomyJSON
    cpc,                \* position of each caller of _ensure_taxonomy_loaded
    nextId,             \* conversion ids handed out so far, plus one
    pc,                 \* position of each validation run
    args,               \* entry point, filename and skip flag of each run
    builder,            \* results_builder of each run
    hasFacts,           \* report.hasFacts of each run
    exc,                \* exception in flight in each run
    hist,               \* history of each run: calls made, failures raised and handled
    results,            \* the built ConversionResults of each run
    result,             \* the dict returned by validate_excel / printed by the CLI
    reply               \* HTTP status, or printed flag and exit code, of each run

vars == <<phase, _taxonomy_loaded, loaderRuns, cpc, nextId, pc, args, builder,
          hasFacts, exc, hist, results, result, reply>>

taxVars == <<phase, _taxonomy_loaded, loaderRuns, cpc>>
runVars == <<nextId, pc, args, builder, hasFacts, exc, hist, results, result, reply>>

\* the runs a model may hold at the same time
Runs == {1, 2}
\* the thread that imports the module
MainThread == 0
Callers == 0 .. NumCallers

NoArgs == [entry |-> "none", filename |-> <<>>, skip |-> "False", pretty |-> FALSE]
\* what a run has done so far: builders created, calls of the extractor, of
\* validateReportPackage and of build(), what the extractor appended, returns of
\* the validator and what it returned, failures raised (how many, by which
\* stage, which one) and failures handled by the except clause
NoHist ==
    [builders |-> 0, extractor |-> 0, extractorMsgs |-> <<>>,
     validator |-> 0, validatorReturned |-> 0, returnedMsgs |-> <<>>,
     builds |-> 0, raised |-> 0, failedAt |-> "none", failure |-> "none", handled |-> 0]
NoReply == [status |-> 0, error |-> "none", printed |-> FALSE, exit |-> -1]
NoResults == BuildResults(NewBuilder, 0)
NoResult == [id |-> 0]

RunInit ==
    /\ nextId = 1
    /\ pc = [r \in Runs |-> "idle"]
    /\ args = [r \in Runs |-> NoArgs]
    /\ builder = [r \in Runs |-> NewBuilder]
    /\ hasFacts = [r \in Runs |-> FALSE]
    /\ exc = [r \in Runs |-> "none"]
    /\ hist = [r \in Runs |-> NoHist]
    /\ results = [r \in Runs |-> NoResults]
    /\ result = [r \in Runs |-> NoResult]
    /\ reply = [r \in Runs |-> NoReply]

(***************************************************************************)
(* _ensure_taxonomy_loaded, statement by statement.                        *)
(***************************************************************************)
\* _ensure_taxonomy_loaded() is called: by the import (line 35) or by a thread
EnsureCall(c) ==
    /\ phase \in {"import", "threads"}
    /\ cpc[c] = "idle"
    /\ cpc' = [cpc EXCEPT ![c] = "L27"]
    /\ UNCHANGED <<phase, _taxonomy_loaded, loaderRuns, runVars>>

\* line 27: if not _taxonomy_loaded
EnsureTest(c) ==
    /\ cpc[c] = "L27"
    /\ cpc' = [cpc EXCEPT ![c] = IF _taxonomy_loaded THEN "ret" ELSE "L29"]
    /\ UNCHANGED <<phase, _taxonomy_loaded, loaderRuns, runVars>>

\* lines 28-29: mireport.loadTaxonomyJSON()
EnsureLoad(c) ==
    /\ cpc[c] = "L29"
    /\ loaderRuns' = loaderRuns + 1
    /\ cpc' = [cpc EXCEPT ![c] = "L30"]
    /\ UNCHANGED <<phase, _taxonomy_loaded, runVars>>

\* lines 30-31: _taxonomy_loaded = True
EnsureSet(c) ==
    /\ cpc[c] = "L30"
    /\ _taxonomy_loaded' = TRUE
    /\ cpc' = [cpc EXCEPT ![c] = "ret"]
    /\ UNCHANGED <<phase, loaderRuns, runVars>>

(***************************************************************************)
(* Process start-up.                                                       *)
(***************************************************************************)
\* api-server.py line 35 has returned: the module is imported; under gunicorn
\* the app now serves, as a script main() runs next
ImportDone(asScript) ==
    /\ phase = "import"
    /\ cpc[MainThread] = "ret"
    /\ phase' = IF asScript THEN "main" ELSE "serving"
    /\ UNCHANGED <<_taxonomy_loaded, loaderRuns, cpc, runVars>>

\* api-server.py main(), lines 170-200
ApiMain ==
    /\ phase = "main"
    /\ loaderRuns' = loaderRuns + 1
    /\ phase' = "serving"
    /\ UNCHANGED <<_taxonomy_loaded, cpc, runVars>>

(***************************************************************************)
(* The orchestrator: validate_excel (api-server.py 43-95) and the body of  *)
(* main (validate-json.py 38-61).  Both scripts hold the same statements.  *)
(***************************************************************************)
\* faulty variant: the builder is a module-level object that later runs reuse
StartExtractionReusing(r) ==
    /\ pc[r] = "L45"
    /\ builder' = [builder EXCEPT ![r] = builder[1]]
    /\ hist' = [hist EXCEPT ![r].builders = @ + 1, ![r].extractor = @ + 1]
    /\ pc' = [pc EXCEPT ![r] = "Extracting"]
    /\ UNCHANGED <<taxVars, nextId, args, hasFacts, exc, results, result, reply>>

\* ConversionResultsBuilder(); ExcelProcessor(...).populateReport() is called
StartExtraction(r) ==
    /\ pc[r] = "L45"
    /\ builder' = [builder EXCEPT ![r] = NewBuilder]
    /\ hist' = [hist EXCEPT ![r].builders = @ + 1, ![r].extractor = @ + 1]
    /\ pc' = [pc EXCEPT ![r] = "Extracting"]
    /\ UNCHANGED <<taxVars, nextId, args, hasFacts, exc, results, result, reply>>

\* faulty variant: the extractor reports to one builder shared by all runs
ExtractorAddMessageShared(r, d) ==
    /\ pc[r] = "Extracting"
    /\ Len(hist[r].extractorMsgs) < MaxExtractMsgs
    /\ builder' = [builder EXCEPT ![1] =
                      AddMessage(@, d.messageText, d.severity, d.messageType)]
    /\ hist' = [hist EXCEPT ![r].extractorMsgs = Append(@, d)]
    /\ UNCHANGED <<taxVars, nextId, pc, args, hasFacts, exc, results, result, reply>>

\* the extractor reports a diagnostic through the builder it was given
ExtractorAddMessage(r, d) ==
    /\ pc[r] = "Extracting"
    /\ Len(hist[r].extractorMsgs) < MaxExtractMsgs
    /\ builder' = [builder EXCEPT ![r] =
                      AddMessage(@, d.messageText, d.severity, d.messageType)]
    /\ hist' = [hist EXCEPT ![r].extractorMsgs = Append(@, d)]
    /\ UNCHANGED <<taxVars, nextId, pc, args, hasFacts, exc, results, result, reply>>

\* populateReport() returns the report
ExtractorReturns(r, facts, queried, populated) ==
    /\ pc[r] = "Extracting"
    /\ populated <= queried
    /\ hasFacts' = [hasFacts EXCEPT ![r] = facts]
    /\ builder' = [builder EXCEPT ![r].cellsQueried = queried,
                                  ![r].cellsPopulated = populated]
    /\ pc' = [pc EXCEPT ![r] = "L55"]
    /\ UNCHANGED <<taxVars, nextId, args, exc, hist, results, result, reply>>

\* ExcelProcessor(...) or populateReport() raises
ExtractorFails(r, e) ==
    /\ pc[r] = "Extracting"
    /\ exc' = [exc EXCEPT ![r] = e]
    /\ hist' = [hist EXCEPT ![r].raised = @ + 1, ![r].failedAt = "extract", ![r].failure = e]
    /\ pc' = [pc EXCEPT ![r] = "Raising"]
    /\ UNCHANGED <<taxVars, nextId, args, builder, hasFacts, results, result, reply>>

\* faulty variant: "or" in place of "and"
ShouldValidateOr(skip_xbrl, facts) == ~Truthy(skip_xbrl) \/ facts

\* if not skip_xbrl and report.hasFacts
ShouldValidate(skip_xbrl, facts) == ~Truthy(skip_xbrl) /\ facts

DecideValidation(r) ==
    /\ pc[r] = "L55"
    /\ pc' = [pc EXCEPT ![r] =
                 IF ShouldValidate(args[r].skip, hasFacts[r]) THEN "L56" ELSE "L71"]
    /\ UNCHANGED <<taxVars, nextId, args, builder, hasFacts, exc, hist, results, result, reply>>

\* report.getInlineReportPackage() and ArelleReportProcessor(...) return
PackageReport(r) ==
    /\ pc[r] = "L56"
    /\ pc' = [pc EXCEPT ![r] = "L61"]
    /\ UNCHANGED <<taxVars, nextId, args, builder, hasFacts, exc, hist, results, result, reply>>

\* report.getInlineReportPackage() or ArelleReportProcessor(...) raises
PackageFails(r, e) ==
    /\ pc[r] = "L56"
    /\ exc' = [exc EXCEPT ![r] = e]
    /\ hist' = [hist EXCEPT ![r].raised = @ + 1, ![r].failedAt = "package", ![r].failure = e]
    /\ pc' = [pc EXCEPT ![r] = "Raising"]
    /\ UNCHANGED <<taxVars, nextId, args, builder, hasFacts, results, result, reply>>

\* arp.validateReportPackage(report_package) is called
InvokeValidator(r) ==
    /\ pc[r] = "L61"
    /\ hist' = [hist EXCEPT ![r].validator = @ + 1]
    /\ pc' = [pc EXCEPT ![r] = "Validating"]
    /\ UNCHANGED <<taxVars, nextId, args, builder, hasFacts, exc, results, result, reply>>

\* faulty variant: the returned diagnostics are not handed to the builder
ValidatorReturnsDropped(r, msgs) ==
    /\ pc[r] = "Validating"
    /\ hist' = [hist EXCEPT ![r].validatorReturned = @ + 1, ![r].returnedMsgs = msgs]
    /\ pc' = [pc EXCEPT ![r] = "L71"]
    /\ UNCHANGED <<taxVars, nextId, args, builder, hasFacts, exc, results, result, reply>>

\* validateReportPackage returns; results_builder.addMessages(arelle_results.messages)
ValidatorReturns(r, msgs) ==
    /\ pc[r] = "Validating"
    /\ builder' = [builder EXCEPT ![r] = AddMessages(@, msgs)]
    /\ hist' = [hist EXCEPT ![r].validatorReturned = @ + 1, ![r].returnedMsgs = msgs]
    /\ pc' = [pc EXCEPT ![r] = "L71"]
    /\ UNCHANGED <<taxVars, nextId, args, hasFacts, exc, results, result, reply>>

\* validateReportPackage raises
ValidatorFails(r, e) ==
    /\ pc[r] = "Validating"
    /\ exc' = [exc EXCEPT ![r] = e]
    /\ hist' = [hist EXCEPT ![r].raised = @ + 1, ![r].failedAt = "validate", ![r].failure = e]
    /\ pc' = [pc EXCEPT ![r] = "Raising"]
    /\ UNCHANGED <<taxVars, nextId, args, builder, hasFacts, results, result, reply>>

\* faulty variant: the clause names one exception class instead of Exception
CatchesValueErrorOnly(e) == e = "ValueError"

\* except Exception: every failure a stage raises is an Exception
Catches(e) == e \in Failures

\* faulty variant: the except clause appends through addMessages, the validation stage's call
HandleExceptionViaAddMessages(r) ==
    /\ pc[r] = "Raising"
    /\ builder' = [builder EXCEPT ![r] =
                      AddMessages(@, <<Diag("Exception: " \o exc[r], "ERROR", "Conversion")>>)]
    /\ hist' = [hist EXCEPT ![r].handled = @ + 1]
    /\ exc' = [exc EXCEPT ![r] = "none"]
    /\ pc' = [pc EXCEPT ![r] = "L71"]
    /\ UNCHANGED <<taxVars, nextId, args, hasFacts, results, result, reply>>

\* faulty variant: the except clause returns without calling build()
HandleExceptionSkipsBuild(r) ==
    /\ pc[r] = "Raising"
    /\ builder' = [builder EXCEPT ![r] =
                      AddMessage(@, "Exception: " \o exc[r], "ERROR", "Conversion")]
    /\ hist' = [hist EXCEPT ![r].handled = @ + 1]
    /\ exc' = [exc EXCEPT ![r] = "none"]
    /\ pc' = [pc EXCEPT ![r] = "Built"]
    /\ UNCHANGED <<taxVars, nextId, args, hasFacts, results, result, reply>>

\* faulty variant: the except clause reports the failure with WARNING severity
HandleExceptionAsWarning(r) ==
    /\ pc[r] = "Raising"
    /\ builder' = [builder EXCEPT ![r] =
                      AddMessage(@, "Exception: " \o exc[r], "WARNING", "Conversion")]
    /\ hist' = [hist EXCEPT ![r].handled = @ + 1]
    /\ exc' = [exc EXCEPT ![r] = "none"]
    /\ pc' = [pc EXCEPT ![r] = "L71"]
    /\ UNCHANGED <<taxVars, nextId, args, hasFacts, results, result, reply>>

\* except Exception as e: results_builder.addMessage(f"Exception: {e}", ERROR, Conversion)
HandleException(r) ==
    /\ pc[r] = "Raising"
    /\ IF Catches(exc[r])
       THEN /\ builder' = [builder EXCEPT ![r] =
                              AddMessage(@, "Exception: " \o exc[r], "ERROR", "Conversion")]
            /\ hist' = [hist EXCEPT ![r].handled = @ + 1]
            /\ exc' = [exc EXCEPT ![r] = "none"]
            /\ pc' = [pc EXCEPT ![r] = "L71"]
       ELSE /\ pc' = [pc EXCEPT ![r] = "Propagated"]
            /\ UNCHANGED <<builder, hist, exc>>
    /\ UNCHANGED <<taxVars, nextId, args, hasFacts, results, result, reply>>

\* results = results_builder.build()
Build(r) ==
    /\ pc[r] = "L71"
    /\ results' = [results EXCEPT ![r] = BuildResults(builder[r], nextId)]
    /\ nextId' = nextId + 1
    /\ hist' = [hist EXCEPT ![r].builds = @ + 1]
    /\ pc' = [pc EXCEPT ![r] = "Built"]
    /\ UNCHANGED <<taxVars, args, builder, hasFacts, exc, result, reply>>

\* faulty variant: the list is built last message first
MessageDictsReversed(msgs) ==
    [i \in DOMAIN msgs |->
        [text |-> msgs[Len(msgs) + 1 - i].messageText,
         severity |-> msgs[Len(msgs) + 1 - i].severity,
         type |-> msgs[Len(msgs) + 1 - i].messageType,
         concept |-> msgs[Len(msgs) + 1 - i].conceptQName,
         excel_ref |-> msgs[Len(msgs) + 1 - i].excelReference]]

\* "messages": [{...} for m in results.userMessages]
MessageDicts(msgs) ==
    [i \in DOMAIN msgs |->
        [text |-> msgs[i].messageText, severity |-> msgs[i].severity,
         type |-> msgs[i].messageType, concept |-> msgs[i].conceptQName,
         excel_ref |-> msgs[i].excelReference]]

\* faulty variant: the field is read from conversionSuccessful
XbrlValidFromSuccess(res, skip_xbrl) ==
    IF ~Truthy(skip_xbrl) THEN PyBool(res.conversionSuccessful) ELSE None

\* "xbrl_valid": results.isXbrlValid if not skip_xbrl else None
XbrlValidField(res, skip_xbrl) == IF ~Truthy(skip_xbrl) THEN res.isXbrlValid ELSE None

\* faulty variant: error_count counts every message
ApiResultDictCountsAll(res, filename, skip_xbrl) ==
    [id |-> res.conversionId,
     filename |-> filename,
     success |-> res.conversionSuccessful,
     xbrl_valid |-> XbrlValidField(res, skip_xbrl),
     overall_severity |-> res.overallSeverity,
     cells_queried |-> res.cellsQueried,
     cells_populated |-> res.cellsPopulated,
     has_errors |-> HasErrors(res),
     has_warnings |-> HasWarnings(res),
     error_count |-> Len(res.userMessages),
     warning_count |-> CountSev(res.userMessages, "WARNING"),
     messages |-> MessageDicts(res.userMessages)]

\* the dict returned by validate_excel
ApiResultDict(res, filename, skip_xbrl) ==
    [id |-> res.conversionId,
     filename |-> filename,
     success |-> res.conversionSuccessful,
     xbrl_valid |-> XbrlValidField(res, skip_xbrl),
     overall_severity |-> res.overallSeverity,
     cells_queried |-> res.cellsQueried,
     cells_populated |-> res.cellsPopulated,
     has_errors |-> HasErrors(res),
     has_warnings |-> HasWarnings(res),
     error_count |-> CountSev(res.userMessages, "ERROR"),
     warning_count |-> CountSev(res.userMessages, "WARNING"),
     messages |-> MessageDicts(res.userMessages)]

\* the dict printed by the CLI
CliOutputDict(res, skip_xbrl) ==
    [id |-> res.conversionId,
     success |-> res.conversionSuccessful,
     xbrl_valid |-> XbrlValidField(res, skip_xbrl),
     overall_severity |-> res.overallSeverity,
     cells_queried |-> res.cellsQueried,
     cells_populated |-> res.cellsPopulated,
     has_errors |-> HasErrors(res),
     has_warnings |-> HasWarnings(res),
     messages |-> MessageDicts(res.userMessages)]

\* validate_excel returns its dict to the endpoint
ReturnResult(r) ==
    /\ pc[r] = "Built"
    /\ args[r].entry \in {"validate", "validate_path"}
    /\ result' = [result EXCEPT ![r] = ApiResultDict(results[r], args[r].filename, args[r].skip)]
    /\ pc' = [pc EXCEPT ![r] = "Returned"]
    /\ UNCHANGED <<taxVars, nextId, args, builder, hasFacts, exc, hist, results, reply>>

(***************************************************************************)
(* The endpoints of api-server.py.                                         *)
(***************************************************************************)
\* a view answers without calling validate_excel: return jsonify({"error": ...}), status;
\* an exception that escapes the view is answered 500 by the framework
Answer(r, entry, status, error) ==
    /\ reply' = [reply EXCEPT ![r].status = status, ![r].error = error]
    /\ args' = [args EXCEPT ![r].entry = entry]
    /\ pc' = [pc EXCEPT ![r] = "Responded"]

\* validate_path answers after file_path = Path(data["path"]) (lines 155-160)
AnswerPath(r, file_path, status, error) ==
    /\ reply' = [reply EXCEPT ![r].status = status, ![r].error = error]
    /\ args' = [args EXCEPT ![r].entry = "validate_path", ![r].filename = file_path]
    /\ pc' = [pc EXCEPT ![r] = "Responded"]

\* a view that calls validate_excel(file, filename, skip_xbrl)
CallValidateExcel(r, entry, filename, skip_xbrl) ==
    /\ args' = [args EXCEPT ![r] =
                   [entry |-> entry, filename |-> filename, skip |-> skip_xbrl, pretty |-> FALSE]]
    /\ pc' = [pc EXCEPT ![r] = "L45"]
    /\ UNCHANGED reply

\* faulty variant: a failed validation is answered as a server error
StatusCodeServerError(success) == IF success THEN 200 ELSE 500

\* status_code = 200 if result["success"] else 422
StatusCode(success) == IF success THEN 200 ELSE 422

\* POST /validate, lines 117-132: hasFile is "file" in request.files,
\* hasSkip is "skip_xbrl" in request.form
ValidateRequest(r, hasFile, filename, hasSkip, skipField) ==
    /\ phase \in {"serving", "pair"}
    /\ pc[r] = "idle"
    /\ nextId <= MaxRuns
    /\ IF ~hasFile THEN Answer(r, "validate", 400, "No file provided")
       ELSE IF filename = <<>> THEN Answer(r, "validate", 400, "No file selected")
       ELSE IF ~EndsWith(Lower(filename), DotXlsx)
            THEN Answer(r, "validate", 400, "Only .xlsx files are supported")
       ELSE CallValidateExcel(r, "validate", filename,
                PyBool(Lower(IF hasSkip THEN skipField ELSE StrFalse) = StrTrue))
    /\ UNCHANGED <<taxVars, nextId, builder, hasFacts, exc, hist, results, result>>

\* the values request.get_json() may return
JsonBodies ==
    {[kind |-> k, path |-> <<>>, skip |-> "absent"] :
        k \in {"null", "emptyDict", "dictNoPath", "dictPathInt", "list", "listPath", "int"}}
    \cup {[kind |-> "dictPath", path |-> p, skip |-> s] :
        p \in Filenames \ {NameEmpty}, s \in JsonSkipValues}

\* not data
BodyFalsy(data) == data.kind \in {"null", "emptyDict"}
\* "path" in data raises TypeError for a number
ContainsRaises(data) == data.kind = "int"
\* "path" in data
ContainsPath(data) == data.kind \in {"dictPath", "dictPathInt", "listPath"}
\* Path(data["path"]) raises TypeError for a list body or a non-string path
PathRaises(data) == data.kind \in {"listPath", "dictPathInt"}

\* faulty variant: the suffix is checked before the path's existence
ValidatePathRequestSuffixFirst(r, data) ==
    /\ phase \in {"serving", "pair"}
    /\ pc[r] = "idle"
    /\ nextId <= MaxRuns
    /\ IF BodyFalsy(data) THEN Answer(r, "validate_path", 400, "No path provided")
       ELSE IF ContainsRaises(data) THEN Answer(r, "validate_path", 500, "TypeError")
       ELSE IF ~ContainsPath(data) THEN Answer(r, "validate_path", 400, "No path provided")
       ELSE IF PathRaises(data) THEN Answer(r, "validate_path", 500, "TypeError")
       ELSE IF Lower(PathSuffix(data.path)) # DotXlsx
            THEN AnswerPath(r, data.path, 400, "Only .xlsx files are supported")
       ELSE IF data.path \notin ExistingPaths
            THEN AnswerPath(r, data.path, 404, "File not found")
       ELSE CallValidateExcel(r, "validate_path", data.path,
                IF data.skip = "absent" THEN "False" ELSE data.skip)
    /\ UNCHANGED <<taxVars, nextId, builder, hasFacts, exc, hist, results, result>>

\* POST /validate/path, lines 151-164; an exception escaping a view is answered 500
ValidatePathRequest(r, data) ==
    /\ phase \in {"serving", "pair"}
    /\ pc[r] = "idle"
    /\ nextId <= MaxRuns
    /\ IF BodyFalsy(data) THEN Answer(r, "validate_path", 400, "No path provided")
       ELSE IF ContainsRaises(data) THEN Answer(r, "validate_path", 500, "TypeError")
       ELSE IF ~ContainsPath(data) THEN Answer(r, "validate_path", 400, "No path provided")
       ELSE IF PathRaises(data) THEN Answer(r, "validate_path", 500, "TypeError")
       ELSE IF data.path \notin ExistingPaths
            THEN AnswerPath(r, data.path, 404, "File not found")
       ELSE IF Lower(PathSuffix(data.path)) # DotXlsx
            THEN AnswerPath(r, data.path, 400, "Only .xlsx files are supported")
       ELSE CallValidateExcel(r, "validate_path", data.path,
                IF data.skip = "absent" THEN "False" ELSE data.skip)
    /\ UNCHANGED <<taxVars, nextId, builder, hasFacts, exc, hist, results, result>>

\* return jsonify(result), status_code (lines 134-135 and 166-167)
Respond(r) ==
    /\ args[r].entry \in {"validate", "validate_path"}
    /\ pc[r] \in {"Returned", "Propagated"}
    /\ reply' = [reply EXCEPT ![r].status =
                    IF pc[r] = "Propagated" THEN 500 ELSE StatusCode(result[r].success)]
    /\ pc' = [pc EXCEPT ![r] = "Responded"]
    /\ UNCHANGED <<taxVars, nextId, args, builder, hasFacts, exc, hist, results, result>>

\* the view has returned; its locals are gone and the worker takes the next request
NextRequest(r) ==
    /\ pc[r] = "Responded"
    /\ pc' = [pc EXCEPT ![r] = "idle"]
    /\ args' = [args EXCEPT ![r] = NoArgs]
    /\ builder' = [builder EXCEPT ![r] = NewBuilder]
    /\ hasFacts' = [hasFacts EXCEPT ![r] = FALSE]
    /\ exc' = [exc EXCEPT ![r] = "none"]
    /\ hist' = [hist EXCEPT ![r] = NoHist]
    /\ results' = [results EXCEPT ![r] = NoResults]
    /\ result' = [result EXCEPT ![r] = NoResult]
    /\ reply' = [reply EXCEPT ![r] = NoReply]
    /\ UNCHANGED <<taxVars, nextId>>

(***************************************************************************)
(* validate-json.py main().                                                *)
(***************************************************************************)
\* lines 34-36: parse_args(); mireport.loadTaxonomyJSON(); in phase "pair" the
\* CLI is a second process next to the API server's, with its own load
CliStart(r, skipFlag, pretty) ==
    /\ phase \in {"cli", "pair"}
    /\ pc[r] = "idle"
    /\ loaderRuns' = loaderRuns + 1
    /\ phase' = IF phase = "cli" THEN "cli_run" ELSE phase
    /\ args' = [args EXCEPT ![r] =
                   [entry |-> "cli", filename |-> <<>>, skip |-> PyBool(skipFlag),
                    pretty |-> pretty]]
    /\ pc' = [pc EXCEPT ![r] = "L45"]
    /\ UNCHANGED <<_taxonomy_loaded, cpc, nextId, builder, hasFacts, exc, hist,
                   results, result, reply>>

\* lines 63-87: print(json.dumps(output))
CliPrint(r) ==
    /\ args[r].entry = "cli"
    /\ pc[r] = "Built"
    /\ result' = [result EXCEPT ![r] = CliOutputDict(results[r], args[r].skip)]
    /\ reply' = [reply EXCEPT ![r].printed = TRUE]
    /\ pc' = [pc EXCEPT ![r] = "L89"]
    /\ UNCHANGED <<taxVars, nextId, args, builder, hasFacts, exc, hist, results>>

\* faulty variant: warnings make the process exit with code 1
ExitCodeOnWarnings(res) ==
    IF res.conversionSuccessful /\ ~HasErrors(res) /\ ~HasWarnings(res) THEN 0 ELSE 1

\* faulty variant: the process ends without sys.exit, that is with code 0
ExitCodeMissing(res) == 0

\* sys.exit(0 if results.conversionSuccessful and not results.hasErrors() else 1)
ExitCode(res) == IF res.conversionSuccessful /\ ~HasErrors(res) THEN 0 ELSE 1

\* line 89; an exception escaping main ends the process with a traceback and code 1
CliExit(r) ==
    /\ args[r].entry = "cli"
    /\ pc[r] \in {"L89", "Propagated"}
    /\ reply' = [reply EXCEPT ![r].exit =
                    IF pc[r] = "Propagated" THEN 1 ELSE ExitCode(results[r])]
    /\ pc' = [pc EXCEPT ![r] = "Exited"]
    /\ phase' = IF phase = "cli_run" THEN "exited" ELSE phase
    /\ UNCHANGED <<_taxonomy_loaded, loaderRuns, cpc, nextId, args, builder, hasFacts,
                   exc, hist, results, result>>

(***************************************************************************)
(* Specifications.                                                         *)
(***************************************************************************)
\* one step of run r between the call of the orchestrator and build()
Orchestrate(r) ==
    \/ StartExtraction(r)
    \/ \E d \in ExtractDiags : ExtractorAddMessage(r, d)
    \/ \E f \in BOOLEAN, q \in 0 .. MaxCells, p \in 0 .. MaxCells : ExtractorReturns(r, f, q, p)
    \/ \E e \in Failures : ExtractorFails(r, e)
    \/ DecideValidation(r)
    \/ PackageReport(r)
    \/ \E e \in Failures : PackageFails(r, e)
    \/ InvokeValidator(r)
    \/ \E m \in SeqsUpTo(ValidatorDiags, MaxValMsgs) : ValidatorReturns(r, m)
    \/ \E e \in Failures : ValidatorFails(r, e)
    \/ HandleException(r)
    \/ Build(r)

\* a process of either script: the API server (imported by gunicorn or run as
\* a script) serving one request after the other, or one CLI invocation
Init ==
    /\ phase \in {"import", "cli"}
    /\ _taxonomy_loaded = FALSE
    /\ loaderRuns = 0
    /\ cpc = [c \in Callers |-> "idle"]
    /\ RunInit

Next ==
    \/ EnsureCall(MainThread)
    \/ EnsureTest(MainThread)
    \/ EnsureLoad(MainThread)
    \/ EnsureSet(MainThread)
    \/ \E s \in BOOLEAN : ImportDone(s)
    \/ ApiMain
    \/ \E hasFile \in BOOLEAN, f \in Filenames, hasSkip \in BOOLEAN, v \in FormSkipValues :
          ValidateRequest(1, hasFile, f, hasSkip, v)
    \/ \E data \in JsonBodies : ValidatePathRequest(1, data)
    \/ \E skipFlag \in BOOLEAN, pretty \in BOOLEAN : CliStart(1, skipFlag, pretty)
    \/ Orchestrate(1)
    \/ ReturnResult(1)
    \/ Respond(1)
    \/ NextRequest(1)
    \/ CliPrint(1)
    \/ CliExit(1)

Spec == Init /\ [][Next]_vars

\* threads entering _ensure_taxonomy_loaded while the taxonomy is not loaded
InitEnsure ==
    /\ phase = "threads"
    /\ _taxonomy_loaded = FALSE
    /\ loaderRuns = 0
    /\ cpc = [c \in Callers |-> "idle"]
    /\ RunInit

NextEnsure ==
    \E c \in Callers \ {MainThread} :
        \/ EnsureCall(c)
        \/ EnsureTest(c)
        \/ EnsureLoad(c)
        \/ EnsureSet(c)

SpecEnsure == InitEnsure /\ [][NextEnsure]_vars

(***************************************************************************)
(* The same input given twice: run 1 is a request to the API server, run 2 *)
(* starts when run 1 is answered and is either the same request again or   *)
(* the CLI on the same workbook with the same skip flag.  The extractor    *)
(* and the validator are deterministic: in run 2 they do what they did in  *)
(* run 1.                                                                  *)
(***************************************************************************)
IsPrefix(s, t) == Len(s) <= Len(t) /\ \A i \in DOMAIN s : s[i] = t[i]

\* the collaborators of run b have done so far what they did in run a
Replays(b, a) ==
    /\ IsPrefix(hist[b].extractorMsgs, hist[a].extractorMsgs)
    /\ pc[b] \in {"L55", "Raising"} => hist[b].extractorMsgs = hist[a].extractorMsgs
    /\ pc[b] = "L55" =>
          /\ hist[a].failedAt # "extract"
          /\ hasFacts[b] = hasFacts[a]
          /\ builder[b].cellsQueried = builder[a].cellsQueried
          /\ builder[b].cellsPopulated = builder[a].cellsPopulated
    /\ pc[b] = "Raising" =>
          hist[b].failedAt = hist[a].failedAt /\ hist[b].failure = hist[a].failure
    /\ pc[b] = "L61" => hist[a].failedAt # "package"
    /\ hist[b].validatorReturned = 1 =>
          hist[a].validatorReturned = 1 /\ hist[b].returnedMsgs = hist[a].returnedMsgs

\* the request of run a again
SameRequest(b, a) ==
    /\ \/ \E f \in Filenames, hasSkip \in BOOLEAN, v \in FormSkipValues :
             ValidateRequest(b, TRUE, f, hasSkip, v)
       \/ \E data \in JsonBodies : ValidatePathRequest(b, data)
    /\ args'[b] = args[a]

\* validate-json.py on the workbook of run a with the skip flag of run a
SameInputCli(b, a) ==
    \E skipFlag \in BOOLEAN, pretty \in BOOLEAN :
        /\ skipFlag = Truthy(args[a].skip)
        /\ CliStart(b, skipFlag, pretty)

InitPair ==
    /\ phase = "pair"
    /\ _taxonomy_loaded = TRUE
    /\ loaderRuns = 1
    /\ cpc = [c \in Callers |-> "idle"]
    /\ RunInit

NextPair ==
    \/ \E hasFile \in BOOLEAN, f \in Filenames, hasSkip \in BOOLEAN, v \in FormSkipValues :
          ValidateRequest(1, hasFile, f, hasSkip, v)
    \/ \E data \in JsonBodies : ValidatePathRequest(1, data)
    \/ Orchestrate(1)
    \/ ReturnResult(1)
    \/ Respond(1)
    \/ (pc[1] = "Responded" /\ hist[1].extractor >= 1) /\ SameRequest(2, 1)
    \/ (pc[1] = "Responded" /\ hist[1].extractor >= 1) /\ SameInputCli(2, 1)
    \/ Orchestrate(2) /\ Replays(2, 1)'
    \/ ReturnResult(2)
    \/ Respond(2)
    \/ CliPrint(2)
    \/ CliExit(2)

SpecPair == InitPair /\ [][NextPair]_vars

(***************************************************************************)
(* Two requests served at the same time by two threads of one server       *)
(* process, their steps interleaved.  Each request brings its own          *)
(* workbook: the diagnostics of run 1 are warnings and notes, those of     *)
(* run 2 are errors, so that a diagnostic in the wrong run shows.          *)
(***************************************************************************)
\* what the extractor reports on the workbook of run r
RunDiag(r) == Diag("cell", IF r = 1 THEN "WARNING" ELSE "ERROR", "ExcelParsing")
\* what the validator reports on the report of run r
RunValDiag(r) == Diag("rule", IF r = 1 THEN "INFO" ELSE "ERROR", "XbrlValidation")

\* one step of run r on its workbook
OrchestrateOwn(r) ==
    \/ StartExtraction(r)
    \/ ExtractorAddMessage(r, RunDiag(r))
    \/ \E f \in BOOLEAN : ExtractorReturns(r, f, MaxCells, 0)
    \/ ExtractorFails(r, "ValueError")
    \/ DecideValidation(r)
    \/ PackageReport(r)
    \/ PackageFails(r, "KeyError")
    \/ InvokeValidator(r)
    \/ \E m \in {<<>>, <<RunValDiag(r)>>} : ValidatorReturns(r, m)
    \/ ValidatorFails(r, "KeyError")
    \/ HandleException(r)
    \/ Build(r)

InitConc ==
    /\ phase = "serving"
    /\ _taxonomy_loaded = TRUE
    /\ loaderRuns = 1
    /\ cpc = [c \in Callers |-> "idle"]
    /\ RunInit

NextConc ==
    \E r \in Runs :
        \/ \E hasSkip \in BOOLEAN : ValidateRequest(r, TRUE, NameLower, hasSkip, StrTrue)
        \/ OrchestrateOwn(r)
        \/ ReturnResult(r)
        \/ Respond(r)

SpecConc == InitConc /\ [][NextConc]_vars

(***************************************************************************)
(* Properties.                                                             *)
(***************************************************************************)
\* the orchestrator of run r was entered
Ran(r) == hist[r].extractor >= 1
\* run r is past the try statement
PastTry(r) == pc[r] \in {"L71", "Built", "Returned", "Responded", "L89", "Exited"}
\* run r holds the dict made from the built results
HasResult(r) == Ran(r) /\ pc[r] \in {"Returned", "Responded", "L89", "Exited"}
\* the diagnostic the except clause makes of failure e
ExceptionDiag(e) == Diag("Exception: " \o e, "ERROR", "Conversion")
\* how many diagnostics of msgs were made by the except clause
ExceptionDiagCount(msgs) ==
    Cardinality({i \in DOMAIN msgs : \E e \in Failures : msgs[i] = ExceptionDiag(e)})
\* the dict of run r carries every field and agrees with the built results
WellFormed(r) ==
    /\ result[r].id = results[r].conversionId
    /\ result[r].success \in BOOLEAN
    /\ result[r].xbrl_valid \in {"True", "False", None}
    /\ result[r].overall_severity \in Severities \cup {"none"}
    /\ result[r].messages = MessageDicts(builder[r].messages)

\* run r is inside the orchestrator and has not called build() yet
BeforeBuilt(r) ==
    pc[r] \in {"L45", "Extracting", "L55", "L56", "L61", "Validating", "Raising", "L71"}

\* C1: whatever the extractor and the validator do (return, or raise any
\* failure), no failure propagates past the orchestrator, a run that has not
\* reached the Built state always has a next step towards it (each step moves
\* forward in the code, so the run ends in Built), and a result handed to the
\* caller was built exactly once and is well formed.
C1_AlwaysBuilt ==
    \A r \in Runs :
        /\ pc[r] # "Propagated"
        /\ BeforeBuilt(r) => ENABLED Orchestrate(r)
        /\ pc[r] \in {"Built", "Returned", "L89"} => hist[r].builds = 1
        /\ pc[r] \in {"Returned", "L89"} => WellFormed(r)

C1_Witness == \E r \in Runs : pc[r] = "Built" /\ hist[r].failedAt = "validate"

\* C2: validateReportPackage is called at most once per run, and only when the
\* extractor returned a report with hasFacts true and skipping was not
\* requested; with skip_xbrl set, with no facts, or after an extraction failure
\* it is never called.
C2_ValidatorOnlyWhenDue ==
    \A r \in Runs :
        /\ hist[r].validator <= 1
        /\ hist[r].validator = 1 =>
              hasFacts[r] /\ ~Truthy(args[r].skip) /\ hist[r].failedAt # "extract"
        /\ (PastTry(r) /\ (Truthy(args[r].skip) \/ ~hasFacts[r] \/ hist[r].failedAt = "extract"))
              => hist[r].validator = 0

C2_Witness == \E r \in Runs : pc[r] = "Built" /\ hist[r].validator = 1 /\ hasFacts[r]

\* C3: a run appends a diagnostic for a stage failure exactly when a stage
\* failed: one ERROR diagnostic of type Conversion whose text carries the
\* failure, placed last, never two; after an extraction failure the validator
\* is not called and the run goes on to build(); no such diagnostic exists when
\* no stage failed.
C3_OneConversionError ==
    \A r \in Runs :
        LET n == ExceptionDiagCount(builder[r].messages) IN
        /\ n <= 1
        /\ n = hist[r].handled
        /\ hist[r].raised <= 1
        /\ PastTry(r) => n = hist[r].raised
        /\ (PastTry(r) /\ hist[r].raised = 1) =>
              /\ builder[r].messages # <<>>
              /\ builder[r].messages[Len(builder[r].messages)] = ExceptionDiag(hist[r].failure)
        /\ hist[r].failedAt = "extract" => hist[r].validator = 0

C3_Witness ==
    \E r \in Runs :
        /\ pc[r] = "Built"
        /\ hist[r].failedAt = "extract"
        /\ Len(builder[r].messages) = 2
        /\ ExceptionDiagCount(builder[r].messages) = 1

\* C4: when the extractor fails and skip_xbrl is false, the result has
\* success = false and xbrl_valid = null, and the endpoint answers 422.
C4_ExtractionFailure ==
    \A r \in Runs :
        (HasResult(r) /\ hist[r].failedAt = "extract" /\ ~Truthy(args[r].skip)) =>
            /\ result[r].success = FALSE
            /\ result[r].xbrl_valid = None
            /\ pc[r] = "Responded" => reply[r].status = 422

C4_Witness ==
    \E r \in Runs :
        /\ pc[r] = "Responded"
        /\ hist[r].failedAt = "extract"
        /\ ~Truthy(args[r].skip)
        /\ reply[r].status = 422

\* C5: xbrl_valid is true or false only if validateReportPackage was called
\* and returned; it is null when skipping was requested, when the report had
\* no facts, when extraction failed and when the validation stage failed.
C5_XbrlValidOnlyAfterValidation ==
    \A r \in Runs :
        HasResult(r) =>
            /\ result[r].xbrl_valid # None => hist[r].validatorReturned = 1
            /\ (Truthy(args[r].skip) \/ ~hasFacts[r] \/ hist[r].failedAt # "none")
                   => result[r].xbrl_valid = None

C5_Witness ==
    \E r \in Runs :
        /\ HasResult(r)
        /\ hist[r].failedAt = "validate"
        /\ ~Truthy(args[r].skip)
        /\ result[r].xbrl_valid = None

\* C6: when the validator returns its diagnostics, all of them are appended to
\* the aggregator, in order and after what was there, and xbrl_valid is true
\* iff none of the returned diagnostics has ERROR severity, whatever the
\* extraction stage reported.
C6_ValidatorDiagnostics ==
    \A r \in Runs :
        (HasResult(r) /\ hist[r].validatorReturned = 1) =>
            LET m == results[r].userMessages
                v == hist[r].returnedMsgs
            IN /\ Len(m) >= Len(v)
               /\ SubSeq(m, Len(m) - Len(v) + 1, Len(m)) = v
               /\ result[r].messages = MessageDicts(m)
               /\ result[r].xbrl_valid = "True" <=> CountSev(v, "ERROR") = 0
               /\ result[r].xbrl_valid = "False" <=> CountSev(v, "ERROR") > 0

C6_Witness ==
    \E r \in Runs :
        /\ HasResult(r)
        /\ hist[r].validatorReturned = 1
        /\ hist[r].returnedMsgs # <<>>
        /\ result[r].xbrl_valid = "True"
        /\ result[r].has_errors

\* C7: a request that passed the transport preconditions is answered 200 iff
\* the result's success is true and 422 otherwise; a stage failure is never
\* answered with a 5xx status.
C7_StatusFollowsSuccess ==
    \A r \in Runs :
        (pc[r] = "Responded" /\ Ran(r)) =>
            /\ reply[r].status \in {200, 422}
            /\ reply[r].status = 200 <=> result[r].success

C7_Witness ==
    \E r \in Runs :
        /\ pc[r] = "Responded"
        /\ hist[r].failedAt = "validate"
        /\ reply[r].status = 422

\* C8: a request that fails a transport precondition (the view answers before
\* it calls validate_excel) gets status 400 or 404, and neither the
\* orchestrator, the extractor nor the validator was called nor any diagnostic
\* created for it.
C8_RejectedWith4xx ==
    \A r \in Runs :
        (pc[r] = "Responded" /\ reply[r].error # "none") =>
            /\ reply[r].status \in {400, 404}
            /\ hist[r].extractor = 0
            /\ hist[r].validator = 0
            /\ hist[r].builds = 0
            /\ builder[r].messages = <<>>

\* C9: the CLI prints the JSON result before it exits, and exits with code 0
\* iff success is true and no diagnostic has ERROR severity, with code 1
\* otherwise; no stage failure escapes main.
C9_CliExitCode ==
    \A r \in Runs :
        args[r].entry = "cli" =>
            /\ pc[r] # "Propagated"
            /\ pc[r] = "L89" => reply[r].printed /\ reply[r].exit = -1
            /\ pc[r] = "Exited" =>
                  /\ reply[r].printed
                  /\ reply[r].exit \in {0, 1}
                  /\ reply[r].exit = 0 <=>
                        /\ result[r].success
                        /\ ~\E i \in DOMAIN result[r].messages :
                               result[r].messages[i].severity = "ERROR"

C9_Witness ==
    \E r \in Runs :
        /\ args[r].entry = "cli"
        /\ pc[r] = "Exited"
        /\ hist[r].failedAt = "extract"
        /\ reply[r].printed
        /\ reply[r].exit = 1

\* C10: when several threads execute _ensure_taxonomy_loaded before the
\* taxonomy is loaded, loadTaxonomyJSON runs at most once.
C10_LoaderAtMostOnce == loaderRuns <= 1

\* C11: in a process of the API server the taxonomy loader has run exactly
\* once when the server starts to serve, and no validation run starts before
\* that.
C11_LoaderExactlyOnce ==
    /\ phase = "serving" => loaderRuns = 1
    /\ \A r \in Runs : args[r].entry \in {"validate", "validate_path"} => loaderRuns >= 1

\* what run r appended to its builder, in the order of the calls
Appended(r) ==
    hist[r].extractorMsgs \o hist[r].returnedMsgs
        \o (IF hist[r].handled = 1 THEN <<ExceptionDiag(hist[r].failure)>> ELSE <<>>)

\* C12: success is true iff no diagnostic of messages has ERROR severity and no
\* stage failure was recorded; a result with success = true has has_errors
\* false and error_count 0.
C12_SuccessIffNoError ==
    \A r \in Runs :
        HasResult(r) =>
            /\ result[r].success <=>
                  /\ ~\E i \in DOMAIN result[r].messages : result[r].messages[i].severity = "ERROR"
                  /\ hist[r].handled = 0
            /\ result[r].success => ~result[r].has_errors
            /\ (result[r].success /\ args[r].entry # "cli") => result[r].error_count = 0

C12_Witness ==
    \E r \in Runs :
        /\ HasResult(r)
        /\ args[r].entry = "validate"
        /\ result[r].success
        /\ result[r].has_warnings
        /\ result[r].error_count = 0

\* C14: the dict the CLI prints has the fields of the dict validate_excel
\* returns, filename excepted, with the same values.
C14_CliSameFields ==
    \A r \in Runs :
        (args[r].entry = "cli" /\ pc[r] \in {"L89", "Exited"}) =>
            LET api == ApiResultDict(results[r], <<>>, args[r].skip)
            IN /\ DOMAIN result[r] = DOMAIN api \ {"filename"}
               /\ \A f \in DOMAIN result[r] : result[r][f] = api[f]

\* C15: messages holds what was appended in the order of the appends: the
\* extraction stage's diagnostics, then the validation stage's, and the
\* diagnostic of a stage failure after everything appended before the failure.
C15_MessageOrder ==
    \A r \in Runs :
        HasResult(r) =>
            /\ Len(result[r].messages) = Len(Appended(r))
            /\ \A i \in DOMAIN result[r].messages :
                  /\ result[r].messages[i].text = Appended(r)[i].messageText
                  /\ result[r].messages[i].severity = Appended(r)[i].severity
                  /\ result[r].messages[i].type = Appended(r)[i].messageType

C15_Witness ==
    \E r \in Runs :
        /\ HasResult(r)
        /\ hist[r].extractorMsgs # <<>>
        /\ hist[r].returnedMsgs # <<>>
        /\ hist[r].extractorMsgs[1].severity # hist[r].returnedMsgs[1].severity

\* C18: a run creates one builder and calls build() on it exactly once on
\* every path, after every append of the run; the built result holds all that
\* was appended, and nothing is appended afterwards.
C18_BuildOnceAfterAppends ==
    \A r \in Runs :
        /\ hist[r].builders <= 1
        /\ hist[r].builds <= 1
        /\ Ran(r) => hist[r].builders = 1
        /\ BeforeBuilt(r) => hist[r].builds = 0
        /\ (Ran(r) /\ ~BeforeBuilt(r)) =>
              /\ hist[r].builds = 1
              /\ builder[r].messages = Appended(r)

C18_Witness ==
    \E r \in Runs :
        /\ pc[r] = "Returned"
        /\ hist[r].failedAt = "package"
        /\ hist[r].extractorMsgs # <<>>
        /\ hist[r].builds = 1

\* C19: POST /validate/path checks, in this order, that the body names a path,
\* that the path exists and that its suffix is .xlsx; the first failing check
\* decides the answer: 404 for a path that does not exist whatever its suffix,
\* 400 for a wrong suffix only if the path exists.
C19_PathCheckOrder ==
    \A r \in Runs :
        (args[r].entry = "validate_path" /\ pc[r] # "idle") =>
            /\ reply[r].error = "No path provided" =>
                  reply[r].status = 400 /\ args[r].filename = <<>>
            /\ reply[r].error = "File not found" =>
                  reply[r].status = 404 /\ args[r].filename \notin ExistingPaths
            /\ reply[r].error = "Only .xlsx files are supported" =>
                  /\ reply[r].status = 400
                  /\ args[r].filename \in ExistingPaths
                  /\ Lower(PathSuffix(args[r].filename)) # DotXlsx
            /\ (args[r].filename # <<>> /\ args[r].filename \notin ExistingPaths) =>
                  reply[r].status = 404 /\ ~Ran(r)
            /\ Ran(r) =>
                  /\ args[r].filename \in ExistingPaths
                  /\ Lower(PathSuffix(args[r].filename)) = DotXlsx

C19_Witness ==
    \E r \in Runs :
        /\ args[r].entry = "validate_path"
        /\ pc[r] = "Responded"
        /\ args[r].filename \notin ExistingPaths
        /\ Lower(PathSuffix(args[r].filename)) # DotXlsx
        /\ reply[r].status = 404

\* both runs of the pair are over
PairDone == pc[1] = "Responded" /\ hist[1].extractor >= 1 /\ pc[2] \in {"Responded", "Exited"}

\* C13: for the same input, the same skip flag and the same behaviour of the
\* extractor and the validator, the endpoint answers 200 iff the CLI exits
\* with code 0, and 422 iff the CLI exits with code 1.
C13_EndpointAgreesWithCli ==
    (PairDone /\ args[2].entry = "cli") =>
        /\ reply[1].status \in {200, 422}
        /\ reply[2].exit \in {0, 1}
        /\ reply[1].status = 200 <=> reply[2].exit = 0
        /\ reply[1].status = 422 <=> reply[2].exit = 1

C13_Witness ==
    /\ PairDone
    /\ args[2].entry = "cli"
    /\ reply[1].status = 200
    /\ reply[2].exit = 0
    /\ result[2].has_warnings
    /\ hist[2].validatorReturned = 1

\* C17: two runs of the orchestrator with the same input, the same skip flag
\* and the same behaviour of the extractor and the validator give the same
\* messages, overall_severity, success and xbrl_valid; only id differs.
C17_SameInputSameResult ==
    (PairDone /\ args[2].entry \in {"validate", "validate_path"}) =>
        /\ \A f \in DOMAIN result[1] \ {"id"} : result[2][f] = result[1][f]
        /\ DOMAIN result[2] = DOMAIN result[1]
        /\ result[2].id # result[1].id
        /\ reply[2] = reply[1]

C17_Witness ==
    /\ PairDone
    /\ args[2].entry \in {"validate", "validate_path"}
    /\ Len(result[1].messages) >= 2
    /\ result[2].messages = result[1].messages
    /\ result[2].id # result[1].id

\* the diagnostics that only the workbook of run r gives rise to
OwnDiags(r) == {RunDiag(r), RunValDiag(r)}

\* C16: runs whose steps interleave are independent: each run has its own
\* builder, which holds what this run appended and nothing another run
\* appended, and the messages, counts and status of a run follow from its own
\* diagnostics alone.
C16_RunsIndependent ==
    \A r \in Runs :
        /\ hist[r].builders <= 1
        /\ builder[r].messages = Appended(r)
        /\ \A o \in Runs \ {r} : \A i \in DOMAIN builder[r].messages :
              builder[r].messages[i] \notin OwnDiags(o)
        /\ HasResult(r) =>
              /\ Len(result[r].messages) = Len(Appended(r))
              /\ \A i \in DOMAIN result[r].messages :
                    /\ result[r].messages[i].text = Appended(r)[i].messageText
                    /\ result[r].messages[i].severity = Appended(r)[i].severity
              /\ result[r].error_count = CountSev(Appended(r), "ERROR")
              /\ result[r].warning_count = CountSev(Appended(r), "WARNING")
              /\ result[r].success <=> CountSev(Appended(r), "ERROR") = 0
        /\ (HasResult(r) /\ pc[r] = "Responded") =>
              reply[r].status = IF CountSev(Appended(r), "ERROR") = 0 THEN 200 ELSE 422

C16_Witness ==
    /\ pc[1] = "Extracting"
    /\ builder[1].messages = <<RunDiag(1)>>
    /\ pc[2] = "Validating"
    /\ builder[2].messages = <<RunDiag(2)>>

====
